---- MODULE Spec2Model ----
(***************************************************************************)
(* Model of the birth-map controller of Astro-POC.                         *)
(*                                                                         *)
(* Two variants of the controller exist in the repository: the current one *)
(* (src/unnamed/part_002, houses taken from sweph.houses) and an older one *)
(* (src/unnamed/part_000, Vertex by direct trigonometry).                  *)
(*                                                                         *)
(* Angles are JavaScript numbers in the code.  Here they are fixed-point   *)
(* integers: one unit is 1/400 of a second of arc, so one hundredth of a   *)
(* second of arc (the resolution of toFixed(2) in formatDMS) is 4 units.   *)
(***************************************************************************)
EXTENDS Integers, Sequences, FiniteSets, TLC

\* ------------------------------------------------------------------ units

UnitsPerArcSecond == 4 * 100
UnitsPerArcMinute == 60 * UnitsPerArcSecond
UnitsPerDegree == 60 * UnitsPerArcMinute
UnitsPerCentiArcSecond == UnitsPerArcSecond \div 100

Deg(d) == d * UnitsPerDegree

FullCircle == Deg(360)
HalfCircle == Deg(180)
SignWidth == Deg(30)

\* ------------------------------------------------- JavaScript arithmetic

\* The JavaScript remainder a % b for b > 0: it takes the sign of a.
JsRem(a, b) == IF a >= 0 THEN a % b ELSE -((-a) % b)

\* Math.floor(a / b) for b > 0.
FloorDiv(a, b) == a \div b

\* Number.prototype.toFixed(2) of a number of seconds of arc given in model
\* units, as the integer number of hundredths printed: round to the nearest
\* hundredth, a tie going to the larger magnitude, the sign kept.
RoundHalfUp(a, q) == IF a >= 0 THEN (a + q \div 2) \div q ELSE -((-a + q \div 2) \div q)

\* ------------------------------------------------------------ zodiac sign

Null == "null"

\* signs, current controller
signs ==
    << "Aries", "Taurus", "Gemini", "Cancer", "Leo", "Virgo",
       "Libra", "Scorpio", "Sagittarius", "Capricorn", "Aquarius", "Pisces" >>

\* signs, older controller (the Hebrew names, romanized)
signsOlder ==
    << "Taleh", "Shor", "Teomim", "Sartan", "Aryeh", "Betulah",
       "Moznayim", "Akrav", "Keshet", "Gdi", "Dli", "Dagim" >>

\* signs[index] || null for a 0-based JavaScript index
SignAt(table, index) ==
    IF index >= 0 /\ index < Len(table) THEN table[index + 1] ELSE Null

\* The index with Math.round in place of Math.floor.
zodiacIndexRounded(longitude) == FloorDiv(longitude + SignWidth \div 2, SignWidth)

\* The index reduced into 0..11 for negative quotients as well (the
\* mathematical modulo in place of the remainder).
zodiacIndexMathMod(longitude) == FloorDiv(longitude, SignWidth) % 12

\* The uncached body of getZodiacSign in the current controller:
\* index = Math.floor(longitude / 30) % 12; sign = signs[index] || null
zodiacIndex(longitude) == JsRem(FloorDiv(longitude, SignWidth), 12)

zodiacSign(longitude) == SignAt(signs, zodiacIndex(longitude))

\* The uncached body of getZodiacSign in the older controller:
\* index = Math.floor(longitude / 30); sign = signs[index] || null
zodiacIndexOlder(longitude) == FloorDiv(longitude, SignWidth)

zodiacSignOlder(longitude) == SignAt(signsOlder, zodiacIndexOlder(longitude))

\* The memo cache is a JavaScript object keyed by the number: a function
\* from the longitudes stored so far to the sign (or null) stored for each.
EmptyCache == << >>

\* cache[longitude] !== undefined
CacheHit(c, longitude) == longitude \in DOMAIN c

\* cache[longitude]
CacheGet(c, longitude) == c[longitude]

\* cache[longitude] = sign, with the key taken within the sign
CacheStoreWithinSign(c, longitude, sign) ==
    [k \in DOMAIN c \cup {JsRem(longitude, SignWidth)} |->
        IF k = JsRem(longitude, SignWidth) THEN sign ELSE c[k]]

\* cache[longitude] = sign
CacheStore(c, longitude, sign) ==
    [k \in DOMAIN c \cup {longitude} |-> IF k = longitude THEN sign ELSE c[k]]

\* getZodiacSign with the cache keyed by the longitude within its sign
\* (the number formatted as long30) instead of the longitude itself.
getZodiacSignKeyedWithinSign(c, longitude) ==
    IF CacheHit(c, JsRem(longitude, SignWidth))
    THEN [sign |-> c[JsRem(longitude, SignWidth)], cache |-> c]
    ELSE [sign |-> zodiacSign(longitude),
          cache |-> CacheStore(c, JsRem(longitude, SignWidth), zodiacSign(longitude))]

\* getZodiacSign(longitude) of the current controller against cache c:
\* the sign returned and the cache afterwards.
getZodiacSign(c, longitude) ==
    IF CacheHit(c, longitude)
    THEN [sign |-> CacheGet(c, longitude), cache |-> c]
    ELSE [sign |-> zodiacSign(longitude),
          cache |-> CacheStore(c, longitude, zodiacSign(longitude))]

\* getZodiacSign(longitude) of the older controller against its cache c.
getZodiacSignOlder(c, longitude) ==
    IF CacheHit(c, longitude)
    THEN [sign |-> CacheGet(c, longitude), cache |-> c]
    ELSE [sign |-> zodiacSignOlder(longitude),
          cache |-> CacheStore(c, longitude, zodiacSignOlder(longitude))]

\* ------------------------------------------------------------- formatDMS

\* The seconds rounded to a whole second, toFixed(0), as hundredths.
formatDMSSecondsWhole(decimalDegrees) ==
    100 * RoundHalfUp(JsRem(JsRem(decimalDegrees, UnitsPerDegree) * 60, UnitsPerDegree) * 60,
                      UnitsPerCentiArcSecond * 360000)

\* formatDMS(decimalDegrees): the three fields of the string it prints,
\* degrees and minutes as integers, seconds as the number of hundredths
\* that toFixed(2) prints.
formatDMSSeconds(decimalDegrees) ==
    RoundHalfUp(JsRem(JsRem(decimalDegrees, UnitsPerDegree) * 60, UnitsPerDegree) * 60,
                UnitsPerCentiArcSecond * 3600)

\* formatDMS carrying seconds that round up to 60.00 into the minutes, and
\* minutes that reach 60 into the degrees.
formatDMSCarrying(decimalDegrees) ==
    LET d == FloorDiv(decimalDegrees, UnitsPerDegree)
        m == FloorDiv(JsRem(decimalDegrees, UnitsPerDegree) * 60, UnitsPerDegree)
        sec == formatDMSSeconds(decimalDegrees)
        m2 == IF sec = 6000 THEN m + 1 ELSE m
    IN  [degrees |-> IF m2 = 60 THEN d + 1 ELSE d,
         minutes |-> IF m2 = 60 THEN 0 ELSE m2,
         seconds |-> IF sec = 6000 THEN 0 ELSE sec]

formatDMS(decimalDegrees) ==
    [degrees |-> FloorDiv(decimalDegrees, UnitsPerDegree),
     minutes |-> FloorDiv(JsRem(decimalDegrees, UnitsPerDegree) * 60, UnitsPerDegree),
     seconds |-> formatDMSSeconds(decimalDegrees)]

\* ------------------------------------------------------------ isDayChart

\* isDayChart of the current controller
isDayChart(sunLongitude, ascendantLongitude) ==
    LET descendantLongitude == JsRem(ascendantLongitude + HalfCircle, FullCircle)
    IN  \/ (sunLongitude >= ascendantLongitude /\ sunLongitude <= descendantLongitude)
        \/ (sunLongitude + FullCircle >= ascendantLongitude
            /\ sunLongitude + FullCircle <= descendantLongitude + FullCircle)

\* isADayChart with the test repeated on the interval shifted by 360.
isADayChartWrapped(sunLongitude, ascendantLongitude) ==
    LET descendantLongitude == JsRem(ascendantLongitude + HalfCircle, FullCircle)
    IN  \/ (sunLongitude >= ascendantLongitude /\ sunLongitude <= descendantLongitude)
        \/ (sunLongitude + FullCircle >= ascendantLongitude
            /\ sunLongitude + FullCircle <= descendantLongitude + FullCircle)

\* isADayChart of the older controller
isADayChart(sunLongitude, ascendantLongitude) ==
    LET descendantLongitude == JsRem(ascendantLongitude + HalfCircle, FullCircle)
    IN  sunLongitude >= ascendantLongitude /\ sunLongitude <= descendantLongitude

\* ---------------------------------------------------------- computeVertex

\* computeVertex of the older controller.  The trigonometry is done in
\* floating point; what the model keeps of it is
\*   - whether 1 / Math.tan(latRad) is finite: Math.tan(0) is 0 and 1 / 0
\*     is Infinity, while at +-90 degrees Math.tan of the rounded pi/2 is
\*     about 1.6e16 and its inverse is finite;
\*   - the angle Math.atan2 returns, in degrees: for finite operands any
\*     angle in [-180,180], given as atan2Angle (it depends on the sidereal
\*     time and the obliquity the provider returns); for a denominator of
\*     +Infinity, sin(obliquity) being positive, it is 0.
cotL(latitude) == IF latitude = 0 THEN "Infinity" ELSE "finite"

vxDenominator(latitude) == cotL(latitude)

\* The angle normalized into [0,360) and returned without the half turn.
vertexWithoutHalfTurn(angle) ==
    JsRem(IF angle < 0 THEN angle + FullCircle ELSE angle, FullCircle)

\* if (vertexLongitude < 0) vertexLongitude += 360; return (vertexLongitude + 180) % 360
vertexFromAngle(angle) ==
    JsRem((IF angle < 0 THEN angle + FullCircle ELSE angle) + HalfCircle, FullCircle)

\* The call: it always returns (no branch of it throws or tests the
\* latitude), the latitude whose tangent it took, and the Vertex.
computeVertex(latitude, atan2Angle) ==
    [returned |-> TRUE,
     latitudeUsed |-> latitude,
     cotL |-> cotL(latitude),
     vertex |-> vertexFromAngle(IF vxDenominator(latitude) = "Infinity" THEN 0 ELSE atan2Angle)]

\* ------------------------------------------------- point records, provider

\* The record stored for a point (the four fields of the object literal).
PointRecord(c, longitude) ==
    [apparentLongitudeDms30 |-> formatDMS(JsRem(longitude, SignWidth)),
     apparentLongitudeDms360 |-> formatDMS(longitude),
     apparentLongitudeDd |-> longitude,
     zodiacSign |-> getZodiacSign(c, longitude).sign]

\* additionalPoints[key] = rec
SetPoint(points, key, rec) ==
    [k \in DOMAIN points \cup {key} |-> IF k = key THEN rec ELSE points[k]]

\* What a call of the ephemeris provider can do: throw, return nothing,
\* return an object with an error, or return data.
Throws == [kind |-> "throw"]
Nothing == [kind |-> "null"]
Error == [kind |-> "error"]
Data(longitude) == [kind |-> "ok", data |-> longitude]
HousesData(ac, mc, vertex) == [kind |-> "ok", AC |-> ac, MC |-> mc, Vertex |-> vertex]

\* processSwephResult(result, pointName) against cache c: null, or the
\* point's record, and the cache afterwards.
processSwephResult(c, result, pointName) ==
    IF result.kind # "ok"
    THEN [isNull |-> TRUE, cache |-> c]
    ELSE LET longitude == IF pointName = "node"
                          THEN JsRem(result.data + FullCircle, FullCircle)
                          ELSE result.data
         IN  [isNull |-> FALSE,
              rec |-> PointRecord(c, longitude),
              cache |-> getZodiacSign(c, longitude).cache]

\* pointsCalculations, in the order of the loop
pointsCalculations ==
    << "sun", "moon", "mercury", "venus", "mars", "jupiter", "saturn",
       "uranus", "neptune", "pluto", "node", "lilith", "chiron", "fortune" >>

Bodies == { pointsCalculations[i] : i \in 1..Len(pointsCalculations) } \ {"fortune"}

\* The Part of Fortune branch of the loop body: the longitude computed
\* from AC, Sun and Moon.
fortuneLongitude(ascendant, sunLongitude, moonLongitude) ==
    IF ~isDayChart(sunLongitude, ascendant)
    THEN JsRem(ascendant + moonLongitude - sunLongitude + FullCircle, FullCircle)
    ELSE JsRem(ascendant - moonLongitude + sunLongitude + FullCircle, FullCircle)

\* The older controller's Part of Fortune without the correction of a
\* negative remainder.
fortuneLongitudeOlderUncorrected(ascendant, sunLongitude, moonLongitude) ==
    IF isADayChart(sunLongitude, ascendant)
    THEN JsRem(ascendant + moonLongitude - sunLongitude, FullCircle)
    ELSE JsRem(ascendant - moonLongitude + sunLongitude, FullCircle)

\* The Part of Fortune of the older controller:
\* isDayChart ? (AC + moon - sun) % 360 : (AC - moon + sun) % 360, then
\* if (fortuneLongitude < 0) fortuneLongitude += 360
fortuneLongitudeOlder(ascendant, sunLongitude, moonLongitude) ==
    LET f == IF isADayChart(sunLongitude, ascendant)
             THEN JsRem(ascendant + moonLongitude - sunLongitude, FullCircle)
             ELSE JsRem(ascendant - moonLongitude + sunLongitude, FullCircle)
    IN  IF f < 0 THEN f + FullCircle ELSE f

\* One iteration of the for loop (try ... catch included) on the state
\* st = [points, cache]; eph is the provider's answer for each body.
LoopBody(st, eph, key) ==
    IF key = "fortune"
    THEN IF {"AC", "sun", "moon"} \subseteq DOMAIN st.points
         THEN LET f == fortuneLongitude(st.points["AC"].apparentLongitudeDd,
                                        st.points["sun"].apparentLongitudeDd,
                                        st.points["moon"].apparentLongitudeDd)
              IN  [points |-> SetPoint(st.points, "fortune", PointRecord(st.cache, f)),
                   cache |-> getZodiacSign(st.cache, f).cache]
         ELSE st
    ELSE IF eph[key].kind = "throw"
         THEN st
         ELSE LET processedResult == processSwephResult(st.cache, eph[key], key)
              IN  IF processedResult.isNull
                  THEN st
                  ELSE [points |-> SetPoint(st.points, key, processedResult.rec),
                        cache |-> processedResult.cache]

\* for (const point of pointsCalculations) { ... } from index i on.  The
\* state after an iteration is bound as a value before the next one runs.
RECURSIVE Loop(_, _, _)
Loop(st, eph, i) ==
    IF i > Len(pointsCalculations)
    THEN st
    ELSE CHOOSE r \in { Loop(next, eph, i + 1) :
                          next \in {LoopBody(st, eph, pointsCalculations[i])} } : TRUE

\* The houses block: AC, MC and Vertex from sweph.houses, or nothing when
\* it returned an error.
HousesBlock(c, housesResult) ==
    IF housesResult.kind # "ok"
    THEN [points |-> << >>, cache |-> c]
    ELSE LET c1 == getZodiacSign(c, housesResult.AC).cache
             c2 == getZodiacSign(c1, housesResult.MC).cache
             c3 == getZodiacSign(c2, housesResult.Vertex).cache
         IN  [points |-> [k \in {"AC", "MC", "Vertex"} |->
                             CASE k = "AC" -> PointRecord(c, housesResult.AC)
                               [] k = "MC" -> PointRecord(c1, housesResult.MC)
                               [] OTHER -> PointRecord(c2, housesResult.Vertex)],
              cache |-> c3]

\* computeAdditionalPoints(julianDay, latitude, longitude) against cache c,
\* the provider answering houses and eph: how the promise settles, the
\* mapping it resolves to, and the cache afterwards.  sweph.houses is
\* called outside the try block, so its exception rejects the promise.
computeAdditionalPoints(c, houses, eph) ==
    IF houses.kind = "throw"
    THEN [status |-> "rejected", points |-> << >>, cache |-> c]
    ELSE CHOOSE r \in { [status |-> "resolved", points |-> st.points, cache |-> st.cache] :
                          st \in { Loop(h, eph, 1) : h \in {HousesBlock(c, houses)} } } : TRUE

\* ---------------------------------------------------- the calls of a run

VARIABLES
    cache,      \* the memo cache of getZodiacSign (one per process)
    calls,      \* the calls of computeAdditionalPoints completed so far
    caller,     \* the calls of getZodiacSign in progress, per request
    fn,         \* a function of the controller applied on its own
    args,       \* the arguments it is applied to
    evaluated,  \* whether it has returned
    result,     \* what it returned
    http        \* the request in birthMapController and its response object

vars == << cache, calls, caller, fn, args, evaluated, result, http >>

\* No function is being applied on its own.
NoFunction == fn = "none" /\ args = << >> /\ evaluated = FALSE /\ result = << >>

\* No request is in birthMapController.
NoRequest == http = [pc |-> "none"]

\* No request is inside getZodiacSign.
NoCaller == caller = << >>

\* How many calls of computeAdditionalPoints a run makes at most.
MaxCalls == 2

\* Provider answers the calls draw from.  Every body has an in-range
\* longitude of its own; Sun, Moon and Ascendant range over samples; and one
\* answer of a call may deviate: a failure, or a longitude outside [0,360).
NominalLongitude(body) ==
    LET i == CHOOSE j \in 1..Len(pointsCalculations) : pointsCalculations[j] = body
    IN  Deg(7 + 27 * (i - 1)) + 1234567

AscendantSamples == {Deg(100), Deg(350)}
SunSamples == {Deg(150), Deg(300)}
MoonSamples == {Deg(200)}
MidheavenNominal == Deg(10) + 7654321
VertexNominal == Deg(190)

NominalEph(s, m) ==
    [b \in Bodies |->
        IF b = "sun" THEN Data(s) ELSE IF b = "moon" THEN Data(m)
        ELSE Data(NominalLongitude(b))]

NominalInputs ==
    { [houses |-> HousesData(ac, MidheavenNominal, VertexNominal), eph |-> NominalEph(s, m)] :
        ac \in AscendantSamples, s \in SunSamples, m \in MoonSamples }

BaseInput ==
    [houses |-> HousesData(Deg(100), MidheavenNominal, VertexNominal),
     eph |-> NominalEph(Deg(150), Deg(200))]

DeviatingAnswers == {Throws, Error, Data(Deg(-10))}

DeviatingHouses ==
    { Throws, Error,
      HousesData(Deg(-10), MidheavenNominal, VertexNominal),
      HousesData(Deg(100), Deg(370), VertexNominal),
      HousesData(Deg(100), MidheavenNominal, Deg(-10)) }

DeviatingInputs ==
    { [BaseInput EXCEPT !.eph[b] = a] : b \in Bodies, a \in DeviatingAnswers }
    \cup { [BaseInput EXCEPT !.eph["sun"] = a] : a \in {Nothing, Data(Deg(370))} }
    \cup { [BaseInput EXCEPT !.eph["node"] = a] : a \in {Data(Deg(370)), Data(Deg(-400))} }
    \cup { [BaseInput EXCEPT !.houses = h] : h \in DeviatingHouses }

Inputs == NominalInputs \cup DeviatingInputs

Init ==
    /\ cache = EmptyCache
    /\ calls = << >>
    /\ NoCaller
    /\ NoFunction
    /\ NoRequest

\* One call of computeAdditionalPoints.  The function is async but awaits
\* nothing, so its body runs to completion before any other call starts.
Call(in) ==
    /\ Len(calls) < MaxCalls
    /\ \E r \in {computeAdditionalPoints(cache, in.houses, in.eph)} :
           /\ cache' = r.cache
           /\ calls' = Append(calls, [houses |-> in.houses, eph |-> in.eph,
                                      status |-> r.status, points |-> r.points])
    /\ UNCHANGED << caller, fn, args, evaluated, result, http >>

Next == \E in \in Inputs : Call(in)

Spec == Init /\ [][Next]_vars

\* ------------------------------------------------ properties of the calls

InRange(longitude) == longitude >= 0 /\ longitude < FullCircle

Resolved(call) == call.status = "resolved"

\* The keys a caller of computeAdditionalPoints asks for: the three house
\* points and every entry of pointsCalculations.
ProviderPoints == {"AC", "MC", "Vertex"} \cup Bodies

\* computeAdditionalPoints(julianDay, latitude, longitude) has no parameter
\* by which its caller could choose a partial result.
PartialResultMode == FALSE

\* C2: in every resolved call whose Ascendant, Sun and Moon are in [0,360),
\* the Part of Fortune is (AC + Moon - Sun) mod 360 when the chart is
\* classified as day and (AC + Sun - Moon) mod 360 when it is night.
C2_FortuneCanonical ==
    \A i \in 1..Len(calls) :
        LET p == calls[i].points
        IN  ("fortune" \in DOMAIN p
             /\ InRange(p["AC"].apparentLongitudeDd)
             /\ InRange(p["sun"].apparentLongitudeDd)
             /\ InRange(p["moon"].apparentLongitudeDd))
            => LET ac == p["AC"].apparentLongitudeDd
                   sun == p["sun"].apparentLongitudeDd
                   moon == p["moon"].apparentLongitudeDd
               IN  p["fortune"].apparentLongitudeDd =
                       IF isDayChart(sun, ac)
                       THEN (ac + moon - sun) % FullCircle
                       ELSE (ac + sun - moon) % FullCircle

\* C3: every record of every result carries a decimal longitude in [0,360).
C3_LongitudesNormalized ==
    \A i \in 1..Len(calls) :
        \A k \in DOMAIN calls[i].points :
            InRange(calls[i].points[k].apparentLongitudeDd)

\* C5: a call that resolves carries a record for every point asked of the
\* provider; a point whose provider call failed makes the call fail.
C5_AssemblyTotal ==
    \A i \in 1..Len(calls) :
        Resolved(calls[i]) => ProviderPoints \subseteq DOMAIN calls[i].points

\* C6: a call that lacks AC, Sun or Moon resolves without the Part of
\* Fortune only under a partial-result mode chosen by its caller.
C6_FortuneDependency ==
    \A i \in 1..Len(calls) :
        (Resolved(calls[i]) /\ ~({"AC", "sun", "moon"} \subseteq DOMAIN calls[i].points))
            => (PartialResultMode /\ "fortune" \notin DOMAIN calls[i].points)

\* What a call with the answers of `call` gives in a process that has made
\* no call yet.
OnFreshCache(call) == computeAdditionalPoints(EmptyCache, call.houses, call.eph)

SameAnswers(a, b) == a.houses = b.houses /\ a.eph = b.eph

\* C7: two calls given the same provider answers return the same mapping,
\* whatever calls came before them: each call returns what it would return
\* on an empty memo cache.
C7_Deterministic ==
    /\ \A i, j \in 1..Len(calls) :
            SameAnswers(calls[i], calls[j])
                => (calls[i].status = calls[j].status /\ calls[i].points = calls[j].points)
    /\ calls # << >>
        => LET last == calls[Len(calls)]
           IN  \E fresh \in {OnFreshCache(last)} :
                   last.status = fresh.status /\ last.points = fresh.points

\* A run in which a call repeats the answers of an earlier one, on a cache
\* that a call with other answers has filled in between or before.
C7_Witness ==
    /\ Len(calls) >= 2
    /\ SameAnswers(calls[1], calls[Len(calls)])
    /\ Resolved(calls[1])
    /\ "fortune" \in DOMAIN calls[1].points

\* --------------------------------------- the functions applied on their own

\* How many points the grid of longitudes over [0,360) has.
GridPoints == 72

LongitudeGrid == { k * (FullCircle \div GridPoints) : k \in 0..(GridPoints - 1) }

\* Longitudes at, just below and just above every multiple of 30 degrees,
\* and some outside [0,360).
SignBoundaries == { Deg(30 * k) + e : k \in -1..13, e \in {-1, 0, 1} }

SignInputs ==
    LongitudeGrid \cup SignBoundaries
    \cup {Deg(-45), Deg(-400), Deg(400), Deg(725)}
    \cup {Deg(-720), Deg(-360) - 1, Deg(-360), Deg(-345), Deg(-330) - 1, Deg(-330)}

\* How many units at each end of a minute of arc the inputs of formatDMS
\* cover one by one.
DmsWindow == 800

DmsWithinMinute ==
    (0..DmsWindow)
    \cup { UnitsPerArcMinute - 1 - k : k \in 0..DmsWindow }
    \cup { 30 * UnitsPerArcSecond + k : k \in 0..7 }

DmsInputs ==
    { Deg(d) + m * UnitsPerArcMinute + u : d \in {0, 29, 359}, m \in {0, 30, 59}, u \in DmsWithinMinute }

LatitudeSamples == {Deg(-45), 0, Deg(32) + 122832, Deg(90)}

Atan2Angles == { g - HalfCircle : g \in LongitudeGrid } \cup {HalfCircle}

\* How many points the grid of Ascendant, Sun and Moon has for the Part of
\* Fortune.
FortuneGridPoints == 12

FortuneGrid == { k * (FullCircle \div FortuneGridPoints) : k \in 0..(FortuneGridPoints - 1) }

FnArgs(f) ==
    CASE f = "isDayChart" ->
            { [sunLongitude |-> s, ascendantLongitude |-> a] :
                s \in LongitudeGrid, a \in LongitudeGrid }
      [] f = "getZodiacSign" ->
            { [variant |-> v, longitude |-> l] : v \in {"current", "older"}, l \in SignInputs }
      [] f = "formatDMS" ->
            { [decimalDegrees |-> x] : x \in DmsInputs }
      [] f = "computeVertex" ->
            { [latitude |-> la, atan2Angle |-> a] : la \in LatitudeSamples, a \in Atan2Angles }
      [] f = "isADayChart" ->
            { [sunLongitude |-> s, ascendantLongitude |-> a] :
                s \in LongitudeGrid, a \in LongitudeGrid }
      [] f = "fortuneLongitude" ->
            { [variant |-> v, ascendant |-> a, sunLongitude |-> s, moonLongitude |-> m] :
                v \in {"current", "older"}, a \in FortuneGrid, s \in FortuneGrid, m \in FortuneGrid }

Functions ==
    {"isDayChart", "getZodiacSign", "formatDMS", "computeVertex", "isADayChart", "fortuneLongitude"}

FnInit ==
    /\ cache = EmptyCache
    /\ calls = << >>
    /\ NoCaller
    /\ fn \in Functions
    /\ args \in FnArgs(fn)
    /\ evaluated = FALSE
    /\ result = << >>
    /\ NoRequest

Return(value) ==
    /\ ~evaluated
    /\ evaluated' = TRUE
    /\ result' = value
    /\ UNCHANGED << cache, calls, caller, fn, args, http >>

ApplyIsDayChart ==
    /\ fn = "isDayChart"
    /\ Return(isDayChart(args.sunLongitude, args.ascendantLongitude))

\* A first call of getZodiacSign in a process: its cache is empty.
ApplyGetZodiacSign ==
    /\ fn = "getZodiacSign"
    /\ Return(IF args.variant = "current"
              THEN getZodiacSign(EmptyCache, args.longitude).sign
              ELSE getZodiacSignOlder(EmptyCache, args.longitude).sign)

ApplyFormatDMS ==
    /\ fn = "formatDMS"
    /\ Return(formatDMS(args.decimalDegrees))

ApplyComputeVertex ==
    /\ fn = "computeVertex"
    /\ Return(computeVertex(args.latitude, args.atan2Angle))

ApplyIsADayChart ==
    /\ fn = "isADayChart"
    /\ Return(isADayChart(args.sunLongitude, args.ascendantLongitude))

ApplyFortuneLongitude ==
    /\ fn = "fortuneLongitude"
    /\ Return(IF args.variant = "current"
              THEN fortuneLongitude(args.ascendant, args.sunLongitude, args.moonLongitude)
              ELSE fortuneLongitudeOlder(args.ascendant, args.sunLongitude, args.moonLongitude))

FnNext ==
    \/ ApplyIsDayChart
    \/ ApplyGetZodiacSign
    \/ ApplyFormatDMS
    \/ ApplyComputeVertex
    \/ ApplyIsADayChart
    \/ ApplyFortuneLongitude

FnSpec == FnInit /\ [][FnNext]_vars

Returned(f) == fn = f /\ evaluated

\* C1: isDayChart(sun, AC) is true exactly when the Sun lies on the arc from
\* the Ascendant to the Descendant, (sun - AC) mod 360 in [0,180].
C1_DayChartIsArc ==
    Returned("isDayChart")
        => (result <=> ((args.sunLongitude - args.ascendantLongitude) % FullCircle <= HalfCircle))

\* C4: on [0,360) getZodiacSign is the 12-way step function: for each
\* k in 0..11 it returns sign k on the whole of [30k, 30k + 30), 30k
\* included and 30k + 30 excluded, and never null; in both controllers.
C4_SignStepFunction ==
    (Returned("getZodiacSign") /\ InRange(args.longitude))
        => /\ result # Null
           /\ \A k \in 0..11 :
                (Deg(30 * k) <= args.longitude /\ args.longitude < Deg(30 * k + 30))
                    => result = (IF args.variant = "current" THEN signs ELSE signsOlder)[k + 1]

\* getZodiacSign has returned for the last longitude below a boundary and
\* for the boundary itself.
C4_Witness ==
    /\ Returned("getZodiacSign")
    /\ args.longitude \in {Deg(330) - 1, Deg(330)}
    /\ args.variant = "older"
    /\ result \in {"Gdi", "Dli"}

\* What the printed fields read back to, in model units:
\* degrees + minutes / 60 + seconds / 3600.
ReadBack(dms) ==
    dms.degrees * UnitsPerDegree + dms.minutes * UnitsPerArcMinute
        + dms.seconds * UnitsPerCentiArcSecond

Abs(x) == IF x < 0 THEN -x ELSE x

\* C9: for an angle in [0,360) the fields formatDMS prints read back to
\* the angle within 1/360000 of a degree (a hundredth of a second of arc).
C9_FormatDMSRoundTrip ==
    (Returned("formatDMS") /\ InRange(args.decimalDegrees))
        => Abs(ReadBack(result) - args.decimalDegrees) <= UnitsPerDegree \div 360000

\* formatDMS has returned for an angle whose seconds round up to 60.00.
C9_Witness ==
    /\ Returned("formatDMS")
    /\ InRange(args.decimalDegrees)
    /\ result.seconds = 6000
    /\ ReadBack(result) # args.decimalDegrees

DegenerateLatitudes == {Deg(-90), 0, Deg(90)}

\* C10: at a latitude of 0 or +-90 degrees computeVertex either is rejected
\* or takes the tangent of a latitude clamped away from those values, and it
\* never returns a Vertex computed from an infinite cotangent.
C10_DegenerateLatitudePolicy ==
    (Returned("computeVertex") /\ args.latitude \in DegenerateLatitudes)
        => /\ (~result.returned \/ result.latitudeUsed \notin DegenerateLatitudes)
           /\ (result.returned => result.cotL = "finite")

\* ------------------------------- getZodiacSign called by concurrent requests

\* How many requests are in flight at once.
MaxRequests == 2

Requests == 1..MaxRequests

\* The longitudes the requests ask about: inside and outside [0,360), two
\* of them in the same sign, one with no sign (null is cached as well).
CacheLongitudes == {Deg(-10), Deg(45), Deg(50) + 1, Deg(180), Deg(370)}

Idle == [pc |-> "idle"]

CacheInit ==
    /\ cache = EmptyCache
    /\ calls = << >>
    /\ caller = [r \in Requests |-> Idle]
    /\ NoFunction
    /\ NoRequest

\* A request calls getZodiacSign(longitude).
Enter(r, longitude) ==
    /\ caller[r].pc = "idle"
    /\ caller' = [caller EXCEPT ![r] = [pc |-> "lookup", longitude |-> longitude]]
    /\ UNCHANGED << cache, calls, fn, args, evaluated, result, http >>

\* if (cache[longitude] !== undefined) return cache[longitude];
Lookup(r) ==
    /\ caller[r].pc = "lookup"
    /\ caller' = [caller EXCEPT ![r] =
            IF CacheHit(cache, caller[r].longitude)
            THEN [pc |-> "returned", longitude |-> caller[r].longitude,
                  sign |-> CacheGet(cache, caller[r].longitude)]
            ELSE [pc |-> "compute", longitude |-> caller[r].longitude]]
    /\ UNCHANGED << cache, calls, fn, args, evaluated, result, http >>

\* const index = ...; const sign = signs[index] || null;
Compute(r) ==
    /\ caller[r].pc = "compute"
    /\ caller' = [caller EXCEPT ![r] =
            [pc |-> "store", longitude |-> caller[r].longitude,
             sign |-> zodiacSign(caller[r].longitude)]]
    /\ UNCHANGED << cache, calls, fn, args, evaluated, result, http >>

\* cache[longitude] = sign; return sign;
Store(r) ==
    /\ caller[r].pc = "store"
    /\ cache' = CacheStore(cache, caller[r].longitude, caller[r].sign)
    /\ caller' = [caller EXCEPT ![r].pc = "returned"]
    /\ UNCHANGED << calls, fn, args, evaluated, result, http >>

\* The request goes on, and may call again.
Leave(r) ==
    /\ caller[r].pc = "returned"
    /\ caller' = [caller EXCEPT ![r] = Idle]
    /\ UNCHANGED << cache, calls, fn, args, evaluated, result, http >>

CacheNext ==
    \E r \in Requests :
        \/ \E longitude \in CacheLongitudes : Enter(r, longitude)
        \/ Lookup(r)
        \/ Compute(r)
        \/ Store(r)
        \/ Leave(r)

CacheSpec == CacheInit /\ [][CacheNext]_vars

\* Every value in the cache is the uncached result for its key, and every
\* call that has returned returned the uncached result for its argument.
CacheAgrees ==
    /\ \A k \in DOMAIN cache : cache[k] = zodiacSign(k)
    /\ \A r \in DOMAIN caller :
            caller[r].pc = "returned" => caller[r].sign = zodiacSign(caller[r].longitude)

\* A step keeps every key of the cache and the value stored under it.
WriteOnce ==
    \A k \in DOMAIN cache : k \in DOMAIN cache' /\ cache'[k] = cache[k]

\* C8: under any interleaving of the calls, the values stored and returned
\* are the uncached results, and a stored value is never replaced by a
\* different one.
C8_CacheWriteOncePerKey == []CacheAgrees /\ [][WriteOnce]_vars

\* The race: one request is about to store a key that another request has
\* stored since the first one looked it up.
C8_Witness ==
    \E r \in DOMAIN caller :
        /\ caller[r].pc = "store"
        /\ CacheHit(cache, caller[r].longitude)

C12_NoCarry ==
    (Returned("formatDMS") /\ InRange(args.decimalDegrees))
        => LET x == args.decimalDegrees
               withinMinute == x % UnitsPerArcMinute
           IN  /\ result.degrees = x \div UnitsPerDegree
               /\ result.minutes = (x % UnitsPerDegree) \div UnitsPerArcMinute
               /\ result.minutes \in 0..59
               /\ result.seconds \in 0..6000
               /\ (2 * withinMinute >= 2 * UnitsPerArcMinute - UnitsPerCentiArcSecond)
                    <=> result.seconds = 6000

\* formatDMS has printed 29 degrees 59 minutes 60.00 seconds.
C12_Witness ==
    /\ Returned("formatDMS")
    /\ result = [degrees |-> 29, minutes |-> 59, seconds |-> 6000]

\* The angle Math.atan2 gave in the call of computeVertex.
RawAngle == IF vxDenominator(args.latitude) = "Infinity" THEN 0 ELSE args.atan2Angle

\* C13: for every angle a in [-180,180] that atan2 returns, computeVertex
\* returns (n + 180) mod 360, n being a normalized into [0,360): a Vertex in
\* [0,360) that is 180 degrees away (mod 360) from a.
C13_VertexHalfTurn ==
    Returned("computeVertex")
        => /\ result.vertex = ((RawAngle % FullCircle) + HalfCircle) % FullCircle
           /\ InRange(result.vertex)
           /\ (result.vertex - RawAngle) % FullCircle = HalfCircle

\* computeVertex has returned for a negative angle, and for -180 it is 0.
C13_Witness ==
    /\ Returned("computeVertex")
    /\ args.latitude # 0
    /\ args.atan2Angle = -HalfCircle
    /\ result.vertex = 0

\* C14: for AC, Sun and Moon in [0,360) the older controller gives
\* (AC + Moon - Sun) mod 360 when it classifies the chart as day and
\* (AC - Moon + Sun) mod 360 when night; the current controller gives
\* (AC - Moon + Sun) mod 360 for day and (AC + Moon - Sun) mod 360 for
\* night; both results are in [0,360).
C14_OppositeBranches ==
    Returned("fortuneLongitude")
        => LET ac == args.ascendant
               sun == args.sunLongitude
               moon == args.moonLongitude
               plusMoon == (ac + moon - sun) % FullCircle
               plusSun == (ac - moon + sun) % FullCircle
           IN  /\ InRange(result)
               /\ args.variant = "older"
                    => result = (IF isADayChart(sun, ac) THEN plusMoon ELSE plusSun)
               /\ args.variant = "current"
                    => result = (IF isDayChart(sun, ac) THEN plusSun ELSE plusMoon)

\* The older controller has computed a day chart's Part of Fortune from a
\* negative AC + Moon - Sun, on which the two formulas differ.
C14_Witness ==
    /\ Returned("fortuneLongitude")
    /\ args.variant = "older"
    /\ isADayChart(args.sunLongitude, args.ascendant)
    /\ args.ascendant + args.moonLongitude - args.sunLongitude < 0
    /\ result # (args.ascendant - args.moonLongitude + args.sunLongitude) % FullCircle

\* C15: for Sun and Ascendant in [0,360) isADayChart is true exactly when
\* AC < 180 and AC <= Sun <= AC + 180: it agrees with the arc from the
\* Ascendant to the Descendant when AC < 180 and is false for every Sun when
\* AC >= 180.
C15_NoWrapHandling ==
    Returned("isADayChart")
        => LET ac == args.ascendantLongitude
               sun == args.sunLongitude
           IN  /\ result <=> (ac < HalfCircle /\ ac <= sun /\ sun <= ac + HalfCircle)
               /\ ac < HalfCircle => (result <=> ((sun - ac) % FullCircle <= HalfCircle))
               /\ ac >= HalfCircle => ~result

\* isADayChart has classified Ascendant 350, Sun 5 as night.
C15_Witness ==
    /\ Returned("isADayChart")
    /\ args.ascendantLongitude = Deg(350)
    /\ args.sunLongitude = Deg(5)
    /\ result = FALSE

\* ------------------------------------------------------ birthMapController

\* The fields of req.body that getDate requires (minute has a default).
RequiredFields == {"year", "month", "day", "hour", "country", "city"}

\* createAstrologyBirthMap(planetData): the same keys, the fields renamed.
\* Given undefined, the for ... in loop runs no iteration and the map is
\* empty; undefined is modelled as the empty mapping.
createAstrologyBirthMap(planetData) ==
    [planet \in DOMAIN planetData |->
        [long30 |-> planetData[planet].apparentLongitudeDms30,
         long360 |-> planetData[planet].apparentLongitudeDms360,
         longDd |-> planetData[planet].apparentLongitudeDd,
         zodiacSign |-> planetData[planet].zodiacSign]]

\* A call of res.json or res.send: it is recorded; the first one sends the
\* response, a later one throws (the headers are already sent).
Written(h, by, status, body) ==
    [h EXCEPT !.writes = Append(h.writes, [by |-> by, status |-> status, body |-> body]),
              !.headersSent = TRUE]

\* A request with body fields `present` reaches birthMapController.
ControllerInit ==
    /\ cache = EmptyCache
    /\ calls = << >>
    /\ NoCaller
    /\ NoFunction
    /\ \E present \in SUBSET RequiredFields :
            http = [pc |-> "getDate", body |-> present, data |-> << >>,
                    writes |-> << >>, headersSent |-> FALSE]

\* getDate with a required field missing: it answers 400 and returns
\* undefined.
GetDateRejects ==
    /\ http.pc = "getDate"
    /\ http.body # RequiredFields
    /\ http' = [Written(http, "getDate", 400, "Please fill all the fields")
                    EXCEPT !.pc = "createAstrologyBirthMap"]
    /\ UNCHANGED << cache, calls, caller, fn, args, evaluated, result >>

\* getDate with every field: it awaits computeAdditionalPoints and returns
\* its points; a rejection passes through asyncHandler to the controller's
\* catch block (getDate is called without next).
GetDateComputes(in) ==
    /\ http.pc = "getDate"
    /\ http.body = RequiredFields
    /\ \E r \in {computeAdditionalPoints(cache, in.houses, in.eph)} :
           /\ cache' = r.cache
           /\ calls' = Append(calls, [houses |-> in.houses, eph |-> in.eph,
                                      status |-> r.status, points |-> r.points])
           /\ http' = IF r.status = "resolved"
                      THEN [http EXCEPT !.pc = "createAstrologyBirthMap", !.data = r.points]
                      ELSE [http EXCEPT !.pc = "catch"]
    /\ UNCHANGED << caller, fn, args, evaluated, result >>

\* const newData = createAstrologyBirthMap(data); res.json(newData);
Respond ==
    /\ http.pc = "createAstrologyBirthMap"
    /\ http' = [Written(http, "birthMapController", 200, createAstrologyBirthMap(http.data))
                    EXCEPT !.pc = IF http.headersSent THEN "catch" ELSE "done"]
    /\ UNCHANGED << cache, calls, caller, fn, args, evaluated, result >>

\* catch (error) { res.status(500).json({ message: error.message }); }
\* When this throws as well, asyncHandler passes the error to next.
Catch ==
    /\ http.pc = "catch"
    /\ http' = [Written(http, "birthMapController", 500, "error.message")
                    EXCEPT !.pc = IF http.headersSent THEN "errorMiddleware" ELSE "done"]
    /\ UNCHANGED << cache, calls, caller, fn, args, evaluated, result >>

\* The error handling middleware: res.status(500).send('Something went wrong!')
ErrorMiddleware ==
    /\ http.pc = "errorMiddleware"
    /\ http' = [Written(http, "errorMiddleware", 500, "Something went wrong!")
                    EXCEPT !.pc = "done"]
    /\ UNCHANGED << cache, calls, caller, fn, args, evaluated, result >>

ControllerNext ==
    \/ GetDateRejects
    \/ \E in \in Inputs : GetDateComputes(in)
    \/ Respond
    \/ Catch
    \/ ErrorMiddleware

ControllerSpec == ControllerInit /\ [][ControllerNext]_vars

\* C16: on every path of a request the response object is written at most
\* once, and once the request is done exactly once: no res.json or
\* res.status(...).json call follows a response already sent.
C16_OneResponse ==
    /\ Len(http.writes) <= 1
    /\ http.pc = "done" => Len(http.writes) = 1

====
